---------------------------- MODULE Spec2Model ----------------------------
(***************************************************************************)
(* A model of the gpgpu dispatch layer: Framework (session and poller),    *)
(* GpuBuffer (from_slice, with_capacity, read, read_vec), DescriptorSet    *)
(* (bind_buffer) and Kernel (enqueue).                                     *)
(*                                                                         *)
(* The device behind the wgpu calls is modelled by what the calls of the   *)
(* source ask of it: a queue executing submissions in order, buffers with  *)
(* a map state, and map requests resolved by Device::poll.                 *)
(***************************************************************************)
EXTENDS Integers, Sequences, FiniteSets, TLC

(***************************************************************************)
(* Bounds of the model.                                                    *)
(***************************************************************************)
MaxLen == 2        \* longest host sequence uploaded / largest blank capacity
MaxEnq == 2        \* submissions per run
MaxBind == 3       \* bind_buffer calls on one DescriptorSet

\* size_of::<u32>(), the element type of the examples
ElemSize == 4

Bufs == {"a", "b", "out"}

Min(x, y) == IF x < y THEN x ELSE y

\* the host vector of n elements the caller uploads: a ramp, as in the
\* examples, of values that fill more than one byte (0x01020304 + i)
HostVec(n) == [i \in 1..n |-> 16909060 + i]

Reverse(s) == [i \in 1..Len(s) |-> s[Len(s) + 1 - i]]

(***************************************************************************)
(* bytemuck::cast_slice: the little-endian bytes of a slice of elements,   *)
(* and back.                                                               *)
(***************************************************************************)
\* byte j (from 0, least significant first) of element value v
Byte(v, j) == (v \div (256 ^ j)) % 256

\* the value of the k bytes of bs that follow position base
RECURSIVE FromLE(_, _, _)
FromLE(bs, base, k) ==
  IF k = 0 THEN 0
  ELSE FromLE(bs, base, k - 1) + bs[base + k] * (256 ^ (k - 1))

CastToBytes(elems) ==
  [p \in 1..(Len(elems) * ElemSize) |->
     Byte(elems[((p - 1) \div ElemSize) + 1], (p - 1) % ElemSize)]

CastToElems(bytes) ==
  [i \in 1..(Len(bytes) \div ElemSize) |->
     FromLE(bytes, (i - 1) * ElemSize, ElemSize)]

Zeroed(n) == [i \in 1..n |-> 0]

(***************************************************************************)
(* GpuBuffer construction.  A buffer is its size field and the device      *)
(* memory behind its wgpu::Buffer.                                         *)
(***************************************************************************)
from_slice(slice) ==
  [size |-> Len(slice) * ElemSize, data |-> CastToBytes(slice)]

with_capacity(n) ==
  [size |-> n * ElemSize, data |-> Zeroed(n * ElemSize)]

capacity(sz) == sz \div ElemSize

(***************************************************************************)
(* The compute shader of the examples: one invocation per work-group,      *)
(* out[i] = a[i] + b[i] in wrapping u32 arithmetic.                        *)
(***************************************************************************)
\* the carry into byte j of x + y
RECURSIVE Carry(_, _, _)
Carry(x, y, j) ==
  IF j = 0 THEN 0
  ELSE (Byte(x, j - 1) + Byte(y, j - 1) + Carry(x, y, j - 1)) \div 256

\* the low k bytes of x + y, as a value
RECURSIVE AddBytes(_, _, _)
AddBytes(x, y, k) ==
  IF k = 0 THEN 0
  ELSE AddBytes(x, y, k - 1)
       + ((Byte(x, k - 1) + Byte(y, k - 1) + Carry(x, y, k - 1)) % 256)
         * (256 ^ (k - 1))

WrapAdd(x, y) == AddBytes(x, y, ElemSize)

(***************************************************************************)
(* DescriptorSet, Program and Kernel.  A bind-group-layout entry keeps the *)
(* fields bind_buffer sets; a bind-group entry its binding and buffer.     *)
(***************************************************************************)
Usages == {"ReadOnly", "ReadWrite"}

DefaultSet == [layout |-> <<>>, set |-> <<>>]

\* bind_buffer taking the index of the bind-group entry after the push
bind_buffer_late(self, storage_buf, usage) ==
  [layout |-> Append(self.layout, [binding    |-> Len(self.layout),
                                   visibility |-> "COMPUTE",
                                   ty         |-> "Storage",
                                   read_only  |-> (usage = "ReadOnly")]),
   set    |-> Append(self.set, [binding  |-> Len(self.layout) + 1,
                                resource |-> storage_buf])]

\* bind_buffer that describes the layout entry but pushes no bind-group
\* entry for a buffer the set already holds
bind_buffer_once(self, storage_buf, usage) ==
  [layout |-> Append(self.layout, [binding    |-> Len(self.layout),
                                   visibility |-> "COMPUTE",
                                   ty         |-> "Storage",
                                   read_only  |-> (usage = "ReadOnly")]),
   set    |-> IF \E i \in 1..Len(self.set) : self.set[i].resource = storage_buf
              THEN self.set
              ELSE Append(self.set, [binding  |-> Len(self.layout),
                                     resource |-> storage_buf])]

\* bind_buffer with the access flag of the layout entry inverted
bind_buffer_flipped(self, storage_buf, usage) ==
  [layout |-> Append(self.layout, [binding    |-> Len(self.layout),
                                   visibility |-> "COMPUTE",
                                   ty         |-> "Storage",
                                   read_only  |-> (usage # "ReadOnly")]),
   set    |-> Append(self.set, [binding  |-> Len(self.layout),
                                resource |-> storage_buf])]

bind_buffer(self, storage_buf, usage) ==
  LET bind_id == Len(self.layout)
      entry_layout == [binding    |-> bind_id,
                       visibility |-> "COMPUTE",
                       ty         |-> "Storage",
                       read_only  |-> (usage = "ReadOnly")]
      entry == [binding |-> bind_id, resource |-> storage_buf]
  IN  [layout |-> Append(self.layout, entry_layout),
       set    |-> Append(self.set, entry)]

ProgramNew(entry_point) == [entry_point |-> entry_point, descriptors |-> <<>>]

\* add_descriptor putting the new set in front of the earlier ones
add_descriptor_front(self, desc) ==
  [self EXCEPT !.descriptors = <<desc>> \o @]

add_descriptor(self, desc) ==
  [self EXCEPT !.descriptors = Append(@, desc)]

KernelNew(program) ==
  [bindgroups      |-> [j \in 1..Len(program.descriptors) |->
                          [layout  |-> program.descriptors[j].layout,
                           entries |-> program.descriptors[j].set]],
   pipeline_layout |-> [j \in 1..Len(program.descriptors) |->
                          program.descriptors[j].layout],
   entry_point     |-> program.entry_point]

\* the compute pass Kernel::enqueue records: the pipeline, every bind group
\* at the index of its position, one dispatch
EnqueuePass(k, x, y, z) ==
  [pipeline |-> k.entry_point,
   binds    |-> [j \in 1..Len(k.bindgroups) |->
                   [index |-> j - 1, group |-> k.bindgroups[j]]],
   dispatch |-> <<x, y, z>>]

\* the kernel both examples build: a and b read-only, the result read-write
ExampleBindings ==
  bind_buffer(bind_buffer(bind_buffer(DefaultSet, "a", "ReadOnly"),
                          "b", "ReadOnly"),
              "out", "ReadWrite")

ExampleKernel == KernelNew(add_descriptor(ProgramNew("main"), ExampleBindings))

\* the buffers a submission of kernel k uses
KernelBufs(k) ==
  UNION {{k.bindgroups[j].entries[i].resource :
            i \in 1..Len(k.bindgroups[j].entries)} :
         j \in 1..Len(k.bindgroups)}

\* the buffer bound at binding i of group 0
Bound(k, i) ==
  LET es == k.bindgroups[1].entries
  IN  es[CHOOSE p \in 1..Len(es) : es[p].binding = i].resource

\* one dispatch of n work-groups over device memory m
ShaderAdd(m, k, n) ==
  LET ae == CastToElems(m[Bound(k, 0)])
      be == CastToElems(m[Bound(k, 1)])
      oe == CastToElems(m[Bound(k, 2)])
      c  == Min(n, Min(Len(ae), Min(Len(be), Len(oe))))
  IN  [m EXCEPT ![Bound(k, 2)] =
         CastToBytes([i \in 1..Len(oe) |->
                        IF i <= c THEN WrapAdd(ae[i], be[i]) ELSE oe[i]])]

\* device memory after the first c submissions of ss ran in order on m
RECURSIVE RunAll(_, _, _)
RunAll(m, ss, c) ==
  IF c = 0 THEN m ELSE ShaderAdd(RunAll(m, ss, c - 1), ExampleKernel, ss[c])

(***************************************************************************)
(* State.                                                                  *)
(***************************************************************************)
VARIABLES
  size,      \* GpuBuffer.size of each buffer, in bytes
  mem,       \* device memory of each wgpu::Buffer, as bytes
  mapState,  \* the device's map state of each buffer: idle, waiting, active
  mapRange,  \* end of the range map_async recorded for each buffer (0: none)
  lastUse,   \* index of the last submission using each buffer
  subs,      \* work-group counts of the submissions made, in queue order
  doneIdx,   \* number of submissions the device has executed
  pc,        \* the caller: idle, await (suspended in rx.await) or panicked
  req,       \* the read in progress
  chan,      \* the one-shot channel of the read: none, open, ok, err
  ret,       \* what the last completed read returned
  panic,     \* the panic message of a panicked caller
  script,    \* the calls the caller still makes (free: any call), and what
             \* the reads of a scripted caller returned
  ds,        \* a DescriptorSet under construction
  calls,     \* the arguments of the bind_buffer calls made on ds, in order
  gb,        \* a GpuBuffer<T> of any element size, its size a full u64
  pb,        \* a Program under construction, its Kernel and recorded pass
  fw         \* the Frameworks (sessions) of the process, each with its
             \* device, queue, poller thread and callers

vars == <<size, mem, mapState, mapRange, lastUse, subs, doneIdx,
          pc, req, chan, ret, panic, script, ds, calls, gb, pb, fw>>

runVars == <<size, mem, mapState, mapRange, lastUse, subs, doneIdx,
             pc, req, chan, ret, panic, script>>

buildVars == <<ds, calls, gb, pb, fw>>

devVars == <<mem, mapState, mapRange, lastUse, subs, doneIdx>>

NoBuffer == [st |-> "none", how |-> "", esize |-> 0, n |-> <<>>, size |-> <<>>,
             cap |-> <<>>, capSt |-> "none", last |-> "", dl |-> <<>>]

\* no add_descriptor call made, no Kernel built, no pass recorded
NoProgram == [prog   |-> [entry_point |-> "main", descriptors |-> <<>>],
              added  |-> <<>>,
              built  |-> FALSE,
              kernel |-> [bindgroups |-> <<>>, pipeline_layout |-> <<>>,
                          entry_point |-> ""],
              pass   |-> [pipeline |-> "", binds |-> <<>>, dispatch |-> <<>>]]

Sessions == {"A", "B"}

\* Framework::default not yet called
NoSession == [stage |-> "none", fatal |-> "", spawned |-> 0, pollers |-> 0,
              pollerPanic |-> "", made |-> {}, mem |-> [b \in Bufs |-> <<>>],
              subs |-> <<>>, doneIdx |-> 0, lastUse |-> 0,
              mapState |-> "idle", mapRange |-> 0,
              pc |-> "idle", chan |-> "none", got |-> "none", host |-> <<>>,
              rpanic |-> "", dpanic |-> ""]

NoReq == [op |-> "none", buf |-> "out", len |-> 0, dl |-> 0,
          host |-> <<>>, atSub |-> 0, maps |-> 0]

NoRet == [op |-> "none", res |-> "none", buf |-> "out", len |-> 0,
          count |-> 0, host |-> <<>>, vec |-> FALSE, atSub |-> 0, maps |-> 0]

MapOutcomes == {"ok", "err"}

Call(op, buf, len, x, y, z) ==
  [op |-> op, buf |-> buf, len |-> len, x |-> x, y |-> y, z |-> z]

Permit(c) == script.free \/ (script.ops # <<>> /\ Head(script.ops) = c)

Advance == IF script.free THEN script ELSE [script EXCEPT !.ops = Tail(@)]

Keep(r) == IF script.free THEN script ELSE [script EXCEPT !.got = Append(@, r)]

Buffers(s, c) ==
  [b \in Bufs |-> CASE b = "a"   -> from_slice(s)
                    [] b = "b"   -> from_slice(Reverse(s))
                    [] b = "out" -> with_capacity(c)]

InitWith(s, c, sc) ==
  /\ size = [b \in Bufs |-> Buffers(s, c)[b].size]
  /\ mem = [b \in Bufs |-> Buffers(s, c)[b].data]
  /\ mapState = [b \in Bufs |-> "idle"]
  /\ mapRange = [b \in Bufs |-> 0]
  /\ lastUse = [b \in Bufs |-> 0]
  /\ subs = <<>>
  /\ doneIdx = 0
  /\ pc = "idle"
  /\ req = NoReq
  /\ chan = "none"
  /\ ret = NoRet
  /\ panic = ""
  /\ script = sc
  /\ ds = DefaultSet
  /\ calls = <<>>
  /\ gb = NoBuffer
  /\ pb = NoProgram
  /\ fw = [f \in Sessions |-> NoSession]

Init ==
  \E n \in 0..MaxLen, c \in 0..MaxLen :
    InitWith(HostVec(n), c, [free |-> TRUE, ops |-> <<>>, got |-> <<>>])

Panic(msg) ==
  /\ pc' = "panicked"
  /\ panic' = msg
  /\ script' = Advance

(***************************************************************************)
(* Kernel::enqueue: one compute pass with every bind group set and one     *)
(* dispatch, submitted to the queue.  Queue::submit rejects a submission   *)
(* that uses a buffer which is not unmapped, and the rejection is fatal.   *)
(***************************************************************************)
\* a queue that puts the new submission in front of the waiting ones
SubmitFront(q, n) == <<n>> \o q

\* Queue::submit of the one command buffer of a dispatch of n work-groups
Submit(q, n) == Append(q, n)

Enqueue(x, y, z) ==
  /\ UNCHANGED buildVars
  /\ pc = "idle"
  /\ Permit(Call("enqueue", "out", 0, x, y, z))
  /\ Len(subs) < MaxEnq
  /\ IF \E b \in KernelBufs(ExampleKernel) : mapState[b] # "idle"
     THEN /\ Panic("Queue::submit: buffer is still mapped")
          /\ req' = [NoReq EXCEPT !.op = "enqueue"]
          /\ UNCHANGED <<size, devVars, chan, ret>>
     ELSE /\ subs' = Submit(subs, x * y * z)
          /\ lastUse' = [b \in Bufs |->
                           IF b \in KernelBufs(ExampleKernel)
                           THEN Len(subs) + 1 ELSE lastUse[b]]
          /\ script' = Advance
          /\ UNCHANGED <<size, mem, mapState, mapRange, doneIdx,
                         pc, req, chan, ret, panic>>

(***************************************************************************)
(* GpuBuffer::read up to its suspension in rx.await, entered directly or   *)
(* through read_vec, which passes a zeroed vector of capacity() elements.  *)
(***************************************************************************)
\* the slice a caller of read passes: len elements of its own
HostSlice(len) == [i \in 1..len |-> 9]

DownloadSize(len, sz) ==
  LET output_size == len * ElemSize
  IN  IF output_size > sz THEN sz ELSE output_size

ReadStart(kind, b, len) ==
  /\ UNCHANGED buildVars
  /\ pc = "idle"
  /\ kind = "read_vec" => len = 0
  /\ Permit(Call(kind, b, len, 0, 0, 0))
  /\ LET buf == IF kind = "read_vec"
                THEN Zeroed(capacity(size[b])) ELSE HostSlice(len)
         download_size == DownloadSize(Len(buf), size[b])
         r == [op |-> kind, buf |-> b, len |-> Len(buf), dl |-> download_size,
               host |-> buf, atSub |-> Len(subs), maps |-> 0]
     IN  IF download_size = 0
         THEN /\ Panic("Buffer slices can not be empty")
              /\ req' = r
              /\ UNCHANGED <<size, devVars, chan, ret>>
         ELSE IF mapRange[b] # 0
         THEN /\ Panic("Buffer is already mapped")
              /\ req' = r
              /\ UNCHANGED <<size, devVars, chan, ret>>
         ELSE /\ mapRange' = [mapRange EXCEPT ![b] = download_size]
              /\ mapState' = [mapState EXCEPT ![b] = "waiting"]
              /\ chan' = "open"
              /\ req' = [r EXCEPT !.maps = 1]
              /\ pc' = "await"
              /\ script' = Advance
              /\ UNCHANGED <<size, mem, lastUse, subs, doneIdx, ret, panic>>

(***************************************************************************)
(* The device executes the next submission of the queue.                   *)
(***************************************************************************)
GpuExec ==
  /\ UNCHANGED buildVars
  /\ doneIdx < Len(subs)
  /\ mem' = ShaderAdd(mem, ExampleKernel, subs[doneIdx + 1])
  /\ doneIdx' = doneIdx + 1
  /\ UNCHANGED <<size, mapState, mapRange, lastUse, subs,
                 pc, req, chan, ret, panic, script>>

(***************************************************************************)
(* One turn of the poller thread: Device::poll resolves the map requests   *)
(* whose buffer no unfinished submission uses, and runs their callbacks,   *)
(* which send the result over the channel.                                 *)
(***************************************************************************)
\* a device resolving a map request without waiting for the submissions
MapReadyEarly(b) == mapState[b] = "waiting"

MapReady(b) == mapState[b] = "waiting" /\ lastUse[b] <= doneIdx

\* a poller that never drives the device
PollIdle == UNCHANGED vars

Poll ==
  IF \E b \in Bufs : MapReady(b)
  THEN \E result \in MapOutcomes :
         /\ mapState' = [b \in Bufs |->
                           IF MapReady(b)
                           THEN (IF result = "ok" THEN "active" ELSE "idle")
                           ELSE mapState[b]]
         /\ chan' = result
         /\ UNCHANGED <<size, mem, mapRange, lastUse, subs, doneIdx,
                        pc, req, ret, panic, script, buildVars>>
  ELSE UNCHANGED vars

(***************************************************************************)
(* GpuBuffer::read from rx.await on: the error is returned, or the mapped  *)
(* range is copied into the caller's slice and the byte count returned.    *)
(* read_vec returns the vector, or the error of read.                      *)
(***************************************************************************)
\* a mapped range that shows blank memory instead of the buffer's
GetMappedRangeBlank(b) == Zeroed(mapRange[b])

GetMappedRange(b) == SubSeq(mem[b], 1, mapRange[b])

ReadCount(download_size) == download_size

\* an await that drops the error
IsErrIgnored(result) == FALSE

\* the ? applied to what rx.await yields
IsErr(result) == result = "err"

\* a receiver that does not wait for the sender
DeliveredAlways(c) == TRUE

\* rx.await is ready once the callback has sent the result of the map
Delivered(c) == c \in MapOutcomes

ReadResume ==
  /\ UNCHANGED buildVars
  /\ pc = "await"
  /\ Delivered(chan)
  /\ chan' = "none"
  /\ LET r == [op |-> req.op, res |-> "ok", buf |-> req.buf, len |-> req.len,
               count |-> 0, host |-> req.host, vec |-> FALSE,
               atSub |-> req.atSub, maps |-> req.maps]
         src == CastToElems(GetMappedRange(req.buf))
     IN  IF IsErr(chan)
         THEN /\ ret' = [r EXCEPT !.res = "err",
                                  !.host = IF req.op = "read" THEN req.host
                                           ELSE <<>>]
              /\ script' = Keep(ret')
              /\ pc' = "idle"
              /\ req' = NoReq
              /\ UNCHANGED <<size, devVars, panic>>
         ELSE IF Len(src) # Len(req.host)
         THEN /\ pc' = "panicked"
              /\ panic' = "copy_from_slice: lengths differ"
              /\ UNCHANGED <<size, devVars, req, ret, script>>
         ELSE /\ ret' = [r EXCEPT !.host = src,
                                  !.count = ReadCount(req.dl),
                                  !.vec = (req.op = "read_vec")]
              /\ script' = Keep(ret')
              /\ pc' = "idle"
              /\ req' = NoReq
              /\ UNCHANGED <<size, devVars, panic>>

\* what the caller asks for: a dispatch of one work-group or of enough to
\* cover every element, and reads into slices shorter than, as long as and
\* longer than the buffers
ReadBufs == {"a", "out"}
Grid == {1, MaxLen}
OutLens == 0..(MaxLen + 1)

Next ==
  \/ \E x \in Grid, y \in {1}, z \in {1} : Enqueue(x, y, z)
  \/ \E kind \in {"read", "read_vec"}, b \in ReadBufs, len \in OutLens :
       ReadStart(kind, b, len)
  \/ ReadResume
  \/ Poll
  \/ GpuExec

Spec == Init /\ [][Next]_vars

(***************************************************************************)
(* The caller of the idempotence scenario: enqueue, read_vec of the        *)
(* result, the same enqueue again, read_vec again.                         *)
(***************************************************************************)
TwiceScript(x) ==
  [free |-> FALSE,
   ops  |-> << Call("enqueue", "out", 0, x, 1, 1),
               Call("read_vec", "out", 0, 0, 0, 0),
               Call("enqueue", "out", 0, x, 1, 1),
               Call("read_vec", "out", 0, 0, 0, 0) >>,
   got  |-> <<>>]

InitTwice ==
  \E n \in 0..MaxLen, c \in 0..MaxLen, x \in Grid :
    InitWith(HostVec(n), c, TwiceScript(x))

SpecTwice == InitTwice /\ [][Next]_vars

\* the poller thread loops for the life of the process and the device
\* executes what was submitted to it
FairSpec == InitTwice /\ [][Next]_vars /\ WF_vars(Poll) /\ WF_vars(GpuExec)

(***************************************************************************)
(* Building a DescriptorSet: any buffers bound in any order.               *)
(***************************************************************************)
BindBuffer(b, u) ==
  /\ Len(ds.layout) < MaxBind
  /\ ds' = bind_buffer(ds, b, u)
  /\ calls' = Append(calls, [buf |-> b, usage |-> u])
  /\ UNCHANGED <<runVars, gb, pb, fw>>

InitBuild ==
  InitWith(HostVec(MaxLen), MaxLen, [free |-> TRUE, ops |-> <<>>, got |-> <<>>])

NextBind == \E b \in Bufs, u \in Usages : BindBuffer(b, u)

SpecBind == InitBuild /\ [][NextBind]_vars

(***************************************************************************)
(* Properties.                                                             *)
(***************************************************************************)
\* device memory before any submission ran: only the result buffer is written
FreshMem == [mem EXCEPT !["out"] = Zeroed(size["out"])]

\* the first c elements of buffer b in device memory m
Front(m, b, c) == SubSeq(CastToElems(m[b]), 1, c)

\* C1: at the step a read returns Ok, what it copied out is the content of
\* the buffer after every submission made before the read was issued has
\* executed, never an earlier content.
C1_Freshness ==
  [][(pc = "await" /\ pc' = "idle" /\ ret'.res = "ok") =>
       ret'.host = Front(RunAll(FreshMem, subs, req.atSub), req.buf, req.len)]_vars

C1_Witness ==
  /\ ret.res = "ok" /\ ret.buf = "out" /\ ret.atSub = 2
  /\ ret.len = capacity(size["out"])
  /\ ret.host # Zeroed(ret.len)
  /\ RunAll(FreshMem, subs, 1)["out"] # RunAll(FreshMem, subs, 2)["out"]

\* C3: a successful read into a slice of L elements, L below the capacity,
\* copies the first L elements of the device buffer and returns L, the
\* number of elements read.
C3_ElementCount ==
  (ret.op = "read" /\ ret.res = "ok" /\ ret.len < capacity(size[ret.buf])) =>
    /\ ret.count = ret.len
    /\ ret.host = Front(mem, ret.buf, ret.len)

\* C4: for every length L of the output slice, below, at or above the
\* capacity C, read completes the copy, and the first min(L, C) elements of
\* the slice are the first min(L, C) elements of the device buffer.
C4_MinDownload ==
  /\ panic # "copy_from_slice: lengths differ"
  /\ (ret.op = "read" /\ ret.res = "ok") =>
       LET c == Min(ret.len, capacity(size[ret.buf]))
       IN  SubSeq(ret.host, 1, c) = Front(mem, ret.buf, c)

\* C5: once read has returned Ok the buffer is unmapped.
C5_Released ==
  (pc = "idle" /\ ret.res = "ok") => mapState[ret.buf] = "idle"

\* C7: read_vec called right after from_slice(S), before any dispatch and
\* any other read, does not fail in the library and, when it returns Ok,
\* returns S.
C7_RoundTrip ==
  /\ ~(/\ pc = "panicked" /\ req.op = "read_vec" /\ req.buf = "a"
       /\ req.atSub = 0 /\ ret = NoRet)
  /\ (ret.op = "read_vec" /\ ret.buf = "a" /\ ret.atSub = 0 /\ ret.res = "ok")
       => (ret.vec /\ ret.host = CastToElems(mem["a"]))

\* C10: when the map request of a read completes with a failure, the read
\* returns Err to its caller without a second map request and without
\* touching the caller's slice; read_vec returns the error and no vector.
C10_MapErrorReturned ==
  [][(pc = "await" /\ chan = "err" /\ pc' # pc) =>
       /\ pc' = "idle"
       /\ ret'.res = "err" /\ ret'.op = req.op /\ ret'.buf = req.buf
       /\ ret'.maps = 1
       /\ chan' = "none" /\ mapState' = mapState /\ mapRange' = mapRange
       /\ (req.op = "read" => ret'.host = HostSlice(req.len))
       /\ (req.op = "read_vec" => ~ret'.vec /\ ret'.host = <<>>)]_vars

C10_Witness == ret.res = "err" /\ ret.op = "read_vec" /\ pc = "idle"

\* C2: with the poller thread taking its turns, a read whose map request
\* was issued gets its result, Ok or the map error, over the channel; and
\* no step other than a poll of the device completes a pending read.
C2_ReadLiveness ==
  /\ (chan = "open") ~> (chan \in MapOutcomes)
  /\ [][(chan = "open" /\ chan' # "open") => Poll]_vars

C2_Witness == pc = "await" /\ chan = "ok" /\ doneIdx = 1 /\ req.atSub = 1

\* C6: enqueue, read_vec, the same enqueue, read_vec: no call of the
\* sequence is refused, and when both read_vec returned Ok their vectors
\* are equal.
C6_Idempotent ==
  /\ panic # "Queue::submit: buffer is still mapped"
  /\ panic # "Buffer is already mapped"
  /\ (/\ script.ops = <<>> /\ pc = "idle" /\ Len(script.got) = 2
      /\ script.got[1].res = "ok" /\ script.got[2].res = "ok")
       => script.got[1].host = script.got[2].host

\* C8: after k bind_buffer calls on an empty set there are k layout entries
\* and k resource entries, the i-th call (from 0) has binding index i in
\* both and its resource entry is the buffer of that call, and a Kernel
\* built from the set binds them at the same indices.
C8_BindingIndices ==
  LET k == Len(calls)
      kernel == KernelNew(add_descriptor(ProgramNew("main"), ds))
  IN  /\ Len(ds.layout) = k
      /\ Len(ds.set) = k
      /\ \A i \in 1..k :
           /\ ds.layout[i].binding = i - 1
           /\ ds.set[i].binding = i - 1
           /\ ds.set[i].resource = calls[i].buf
           /\ kernel.bindgroups[1].entries[i].binding = i - 1
           /\ kernel.bindgroups[1].entries[i].resource = calls[i].buf
           /\ kernel.bindgroups[1].layout[i].binding = i - 1

C8_Witness ==
  /\ Len(calls) = 3
  /\ calls[1].buf = "a" /\ calls[2].buf = "b" /\ calls[3].buf = "out"
  /\ ds = ExampleBindings

(***************************************************************************)
(* GpuBuffer<T> sizes for any element type.  size is a u64 and capacity a  *)
(* u64 argument: a u64 is held as Limbs digits of base Base, least         *)
(* significant first, so that the arithmetic keeps its 64-bit width.       *)
(***************************************************************************)
MaxCap == 2

Limbs == 4

Base == 65536

\* std::mem::size_of::<T>() of the element types: (), u8, [u8; 3], u32, u64
ElemSizes == {0, 1, 3, 4, 8}

\* most significant digits of the capacities asked for
TopLimbs == {0, 1, 8192, 16384, 21845, 32768, 65535}

Wide(v) == [j \in 1..Limbs |-> IF j = 1 THEN v ELSE 0]

\* the carry of w * es into digit j
RECURSIVE MulCarry(_, _, _)
MulCarry(w, es, j) ==
  IF j = 1 THEN 0 ELSE (w[j - 1] * es + MulCarry(w, es, j - 1)) \div Base

\* w * es as the mathematical product, one digit longer than a u64
Product(w, es) ==
  [j \in 1..(Limbs + 1) |->
     IF j <= Limbs THEN (w[j] * es + MulCarry(w, es, j)) % Base
     ELSE MulCarry(w, es, j)]

\* u64 multiplication without overflow checks: the product modulo 2^64
WrappingMul(w, es) == [j \in 1..Limbs |-> Product(w, es)[j]]

MulOverflows(w, es) == Product(w, es)[Limbs + 1] # 0

\* the remainder of the digits above digit j, divided by es
RECURSIVE DivRem(_, _, _)
DivRem(w, es, j) ==
  IF j >= Limbs THEN 0 ELSE (DivRem(w, es, j + 1) * Base + w[j + 1]) % es

\* u64 division and remainder by es > 0
WideDiv(w, es) == [j \in 1..Limbs |-> (DivRem(w, es, j) * Base + w[j]) \div es]

WideRem(w, es) == (DivRem(w, es, 1) * Base + w[1]) % es

WideLess(x, y) ==
  \E j \in 1..Limbs : x[j] < y[j] /\ \A k \in (j + 1)..Limbs : x[k] = y[k]

WideMin(x, y) == IF WideLess(y, x) THEN y ELSE x

\* GpuBuffer::with_capacity for an element of es bytes: the multiplication
\* panics on overflow when the build checks overflow and wraps otherwise
WithCapacity(es, n, checks) ==
  /\ gb.st = "none"
  /\ gb' = IF MulOverflows(n, es) /\ checks
             THEN [gb EXCEPT !.st = "panicked", !.how = "with_capacity",
                             !.esize = es, !.n = n,
                             !.last = "attempt to multiply with overflow"]
             ELSE [gb EXCEPT !.st = "made", !.how = "with_capacity",
                             !.esize = es, !.n = n,
                             !.size = WrappingMul(n, es),
                             !.last = "with_capacity"]
  /\ UNCHANGED <<runVars, ds, calls, pb, fw>>

\* GpuBuffer::from_slice of a host slice of len elements of es bytes
FromSlice(es, len) ==
  /\ gb.st = "none"
  /\ gb' = [gb EXCEPT !.st = "made", !.how = "from_slice", !.esize = es,
                      !.n = Wide(len), !.size = Wide(len * es),
                      !.last = "from_slice"]
  /\ UNCHANGED <<runVars, ds, calls, pb, fw>>

\* GpuBuffer::capacity: size / size_of::<T>(), a division by zero for a
\* zero-sized T
CallCapacity ==
  /\ gb.st = "made"
  /\ gb.capSt = "none"
  /\ gb' = IF gb.esize = 0
             THEN [gb EXCEPT !.capSt = "panicked",
                             !.last = "attempt to divide by zero"]
             ELSE [gb EXCEPT !.capSt = "done",
                             !.cap = WideDiv(gb.size, gb.esize),
                             !.last = "capacity"]
  /\ UNCHANGED <<runVars, ds, calls, pb, fw>>

\* the buffer is bound to a DescriptorSet: bind_buffer borrows it
CapBind(u) ==
  /\ gb.st = "made"
  /\ Len(ds.layout) < MaxBind
  /\ ds' = bind_buffer(ds, "g", u)
  /\ calls' = Append(calls, [buf |-> "g", usage |-> u])
  /\ gb' = [gb EXCEPT !.last = "bind_buffer"]
  /\ UNCHANGED <<runVars, pb, fw>>

\* a Kernel whose set binds the buffer is enqueued: enqueue takes no buffer
CapEnqueue ==
  /\ gb.st = "made"
  /\ Len(ds.layout) > 0
  /\ gb.last # "enqueue"
  /\ gb' = [gb EXCEPT !.last = "enqueue"]
  /\ UNCHANGED <<runVars, ds, calls, pb, fw>>

\* read into a slice of len elements (read_vec: of capacity() elements)
\* borrows the buffer and computes the bytes to download
CapRead(kind, len) ==
  /\ gb.st = "made"
  /\ gb.esize > 0
  /\ kind = "read_vec" => len = 0
  /\ LET output_size == IF kind = "read_vec"
                          THEN WrappingMul(WideDiv(gb.size, gb.esize), gb.esize)
                          ELSE Wide(len * gb.esize)
     IN  gb' = [gb EXCEPT !.last = kind,
                          !.dl = WideMin(gb.size, output_size)]
  /\ gb' # gb
  /\ UNCHANGED <<runVars, ds, calls, pb, fw>>

InitCap == InitBuild

NextCap ==
  \/ \E es \in ElemSizes, lo \in 0..MaxCap, hi \in TopLimbs, checks \in BOOLEAN :
       WithCapacity(es, [Wide(lo) EXCEPT ![Limbs] = hi], checks)
  \/ \E es \in ElemSizes, len \in 0..MaxCap : FromSlice(es, len)
  \/ CallCapacity
  \/ \E u \in Usages : CapBind(u)
  \/ CapEnqueue
  \/ \E kind \in {"read", "read_vec"}, len \in 0..MaxCap : CapRead(kind, len)

SpecCap == InitCap /\ [][NextCap]_vars

\* C9: a buffer made by with_capacity(n) has size n * sizeof(T), the
\* product in the integers, and capacity() returns n, for every element
\* type and every u64 n; a buffer made by from_slice(S) has capacity
\* len(S); neither call is refused; and whatever bind_buffer, enqueue, read
\* and read_vec calls followed, the size is still that of the creation and
\* an exact multiple of sizeof(T).
C9_CapacityInvariant ==
  /\ gb.st # "panicked"
  /\ gb.capSt # "panicked"
  /\ gb.st = "made" =>
       /\ Product(gb.n, gb.esize) = gb.size \o <<0>>
       /\ gb.capSt = "done" => gb.cap = gb.n
       /\ gb.esize > 0 => WideRem(gb.size, gb.esize) = 0
       /\ gb.esize = 0 => gb.size = Wide(0)

C15_CopyAfterMap ==
  [][(ret' # ret /\ ret'.res = "ok") =>
       /\ pc = "await" /\ req.maps = 1
       /\ chan = "ok"
       /\ mapState[req.buf] = "active"
       /\ ret'.buf = req.buf /\ ret'.maps = 1]_vars

C15_Witness ==
  /\ ret.res = "ok" /\ ret.op = "read" /\ ret.buf = "out" /\ ret.atSub = 1
  /\ pc = "idle"

\* C17: a read_vec that returns Ok returns a vector of exactly capacity
\* elements, element i being element i of the device buffer.
C17_WholeBuffer ==
  [][(ret' # ret /\ ret'.res = "ok" /\ ret'.op = "read_vec") =>
       /\ ret'.vec
       /\ Len(ret'.host) * ElemSize = size[ret'.buf]
       /\ Len(ret'.host) = Len(CastToElems(mem[ret'.buf]))
       /\ \A i \in 1..Len(ret'.host) :
            ret'.host[i] = CastToElems(mem[ret'.buf])[i]]_vars

C17_Witness ==
  /\ ret.res = "ok" /\ ret.op = "read_vec" /\ ret.buf = "a"
  /\ Len(ret.host) = MaxLen /\ ret.host = HostVec(MaxLen)

\* C18: every layout entry of a DescriptorSet is a compute-stage storage
\* buffer entry, read-only exactly when the bind_buffer call that appended
\* it was given ReadOnly, and no later bind_buffer changes an entry.
C18_ReadOnlyFlag ==
  /\ [](\A i \in 1..Len(ds.layout) :
          /\ ds.layout[i].visibility = "COMPUTE"
          /\ ds.layout[i].ty = "Storage"
          /\ ds.layout[i].read_only = (calls[i].usage = "ReadOnly"))
  /\ [][\A i \in 1..Len(ds.layout) : ds'.layout[i] = ds.layout[i]]_vars

C18_Witness ==
  /\ Len(ds.layout) = 3
  /\ ds.layout[1].read_only /\ ~ds.layout[2].read_only /\ ds.layout[3].read_only
  /\ calls[2].usage = "ReadWrite"

(***************************************************************************)
(* Building a Program of several DescriptorSets, the Kernel made of it and *)
(* the pass an enqueue of that Kernel records.                             *)
(***************************************************************************)
MaxSets == 2

\* the access mode the examples give each buffer
ExampleUsage(b) == IF b = "out" THEN "ReadWrite" ELSE "ReadOnly"

ProgBind(b) ==
  /\ ~pb.built
  /\ \A i \in 1..Len(ds.set) : ds.set[i].resource # b
  /\ ds' = bind_buffer(ds, b, ExampleUsage(b))
  /\ calls' = Append(calls, [buf |-> b, usage |-> ExampleUsage(b)])
  /\ UNCHANGED <<runVars, gb, pb, fw>>

AddDescriptor ==
  /\ ~pb.built
  /\ Len(pb.added) < MaxSets
  /\ pb' = [pb EXCEPT !.prog = add_descriptor(pb.prog, ds),
                      !.added = Append(pb.added, ds)]
  /\ ds' = DefaultSet
  /\ calls' = <<>>
  /\ UNCHANGED <<runVars, gb, fw>>

NewKernel ==
  /\ ~pb.built
  /\ pb' = [pb EXCEPT !.built = TRUE, !.kernel = KernelNew(pb.prog)]
  /\ UNCHANGED <<runVars, ds, calls, gb, fw>>

ProgEnqueue(x, y, z) ==
  /\ pb.built
  /\ pb.pass.dispatch # <<x, y, z>>
  /\ pb' = [pb EXCEPT !.pass = EnqueuePass(pb.kernel, x, y, z)]
  /\ UNCHANGED <<runVars, ds, calls, gb, fw>>

NextProg ==
  \/ \E b \in Bufs : ProgBind(b)
  \/ AddDescriptor
  \/ NewKernel
  \/ \E x \in Grid, y \in {1}, z \in {1} : ProgEnqueue(x, y, z)

SpecProg == InitBuild /\ [][NextProg]_vars

\* C14: a Kernel built from a Program of m add_descriptor calls has m bind
\* groups, the j-th made of the layout and resource entries of the j-th
\* set added, and a pipeline layout of the m layouts in that order; the
\* pass of every enqueue binds group j at set index j and nothing else.
C14_SetOrder ==
  LET m == Len(pb.added)
  IN  /\ Len(pb.prog.descriptors) = m
      /\ pb.built =>
           /\ Len(pb.kernel.bindgroups) = m
           /\ Len(pb.kernel.pipeline_layout) = m
           /\ \A j \in 1..m :
                /\ pb.kernel.bindgroups[j].layout = pb.added[j].layout
                /\ pb.kernel.bindgroups[j].entries = pb.added[j].set
                /\ pb.kernel.pipeline_layout[j] = pb.added[j].layout
      /\ pb.pass.pipeline # "" =>
           /\ Len(pb.pass.binds) = m
           /\ \A j \in 1..m :
                /\ pb.pass.binds[j].index = j - 1
                /\ pb.pass.binds[j].group.entries = pb.added[j].set
                /\ pb.pass.binds[j].group.layout = pb.added[j].layout

C14_Witness ==
  /\ Len(pb.added) = 2
  /\ pb.added[1] = bind_buffer(bind_buffer(DefaultSet, "a", "ReadOnly"),
                               "b", "ReadOnly")
  /\ pb.added[2] = bind_buffer(DefaultSet, "out", "ReadWrite")
  /\ pb.pass.pipeline = "main" /\ pb.pass.dispatch = <<MaxLen, 1, 1>>

(***************************************************************************)
(* Sessions.  Each Framework::default call negotiates its own adapter,     *)
(* device and queue and spawns the thread that polls that device.  A       *)
(* session has two callers, one that dispatches and one that reads the     *)
(* result buffer with read_vec and may drop the read while it is pending.  *)
(***************************************************************************)
MaxSessEnq == 1

\* Framework::default up to the await of request_device
request_adapter(f, found) ==
  IF found THEN [f EXCEPT !.stage = "device"]
  ELSE [f EXCEPT !.stage = "failed",
                 !.fatal = "Failed to find an appropriate adapter"]

\* std::thread::spawn of the polling loop
spawn_poller(f) == [f EXCEPT !.spawned = @ + 1, !.pollers = @ + 1]

\* a default() that spawns the poller before it looks at the device result
request_device_spawning(f, ok) ==
  IF ok THEN [spawn_poller(f) EXCEPT !.stage = "live"]
  ELSE [spawn_poller(f) EXCEPT !.stage = "failed",
                               !.fatal = "Failed at device creation"]

\* Framework::default from the await of request_device to its return
request_device(f, ok) ==
  IF ok THEN [spawn_poller(f) EXCEPT !.stage = "live"]
  ELSE [f EXCEPT !.stage = "failed", !.fatal = "Failed at device creation"]

SessSet(s, f) ==
  /\ fw' = [fw EXCEPT ![s] = f]
  /\ UNCHANGED <<runVars, ds, calls, gb, pb>>

SessCreate(s, found) ==
  /\ fw[s].stage = "none"
  /\ SessSet(s, request_adapter(fw[s], found))

SessDevice(s, ok) ==
  /\ fw[s].stage = "device"
  /\ SessSet(s, request_device(fw[s], ok))

\* the buffers of run_gpu, made in its order
NextBuf(made) ==
  IF "a" \notin made THEN "a" ELSE IF "b" \notin made THEN "b" ELSE "out"

SessNewBuffer(s) ==
  /\ fw[s].stage = "live"
  /\ fw[s].made # Bufs
  /\ LET b == NextBuf(fw[s].made)
     IN  SessSet(s, [fw[s] EXCEPT
                       !.made = @ \cup {b},
                       !.mem[b] = Buffers(HostVec(MaxLen), MaxLen)[b].data])

\* a device that refuses only buffers whose mapping is complete
StillMappedActive(state) == state = "active"

\* Queue::submit refuses a buffer that is not unmapped: one with a map
\* request pending or with a mapping in place
StillMapped(state) == state # "idle"

\* Kernel::enqueue by the dispatching caller
SessEnqueue(s, x) ==
  /\ fw[s].stage = "live"
  /\ fw[s].made = Bufs
  /\ fw[s].dpanic = ""
  /\ Len(fw[s].subs) < MaxSessEnq
  /\ SessSet(s, IF StillMapped(fw[s].mapState)
                THEN [fw[s] EXCEPT
                        !.dpanic = "Queue::submit: buffer is still mapped"]
                ELSE [fw[s] EXCEPT !.subs = Submit(@, x),
                                   !.lastUse = Len(fw[s].subs) + 1])

\* read_vec of the result buffer by the reading caller, up to rx.await
SessRead(s) ==
  /\ fw[s].stage = "live"
  /\ fw[s].made = Bufs
  /\ fw[s].pc = "idle"
  /\ fw[s].rpanic = ""
  /\ SessSet(s, IF fw[s].mapRange # 0
                THEN [fw[s] EXCEPT !.pc = "panicked",
                                   !.rpanic = "Buffer is already mapped"]
                ELSE [fw[s] EXCEPT
                        !.mapRange = DownloadSize(MaxLen, MaxLen * ElemSize),
                        !.mapState = "waiting",
                        !.chan = "open",
                        !.pc = "await"])

\* the reading caller drops the future of a pending read: the receiving
\* end of the channel goes with it
SessAbandon(s) ==
  /\ fw[s].pc = "await"
  /\ SessSet(s, [fw[s] EXCEPT
                   !.pc = "idle",
                   !.got = "abandoned",
                   !.chan = IF @ = "open" THEN "dropped" ELSE "none"])

SessResume(s) ==
  /\ fw[s].pc = "await"
  /\ Delivered(fw[s].chan)
  /\ SessSet(s, IF IsErr(fw[s].chan)
                THEN [fw[s] EXCEPT !.pc = "idle", !.chan = "none",
                                   !.got = "err"]
                ELSE [fw[s] EXCEPT
                        !.pc = "idle", !.chan = "none", !.got = "ok",
                        !.host = CastToElems(SubSeq(fw[s].mem["out"], 1,
                                                    fw[s].mapRange))])

SessExec(s) ==
  /\ fw[s].doneIdx < Len(fw[s].subs)
  /\ SessSet(s, [fw[s] EXCEPT
                   !.doneIdx = @ + 1,
                   !.mem = ShaderAdd(@, ExampleKernel,
                                     fw[s].subs[fw[s].doneIdx + 1])])

\* Device::poll on the device of f: a map request whose buffer no
\* unfinished submission uses is resolved and its callback run; the
\* callback's tx.send(result).expect(..) panics in the polling thread when
\* the receiver is gone
PollDevice(f, result) ==
  IF f.mapState = "waiting" /\ f.lastUse <= f.doneIdx
  THEN LET g == [f EXCEPT !.mapState = IF result = "ok" THEN "active"
                                       ELSE "idle"]
       IN  IF f.chan = "open"
           THEN [g EXCEPT !.chan = result]
           ELSE [g EXCEPT !.pollers = @ - 1,
                          !.pollerPanic = "GpuBuffer reading error!"]
  ELSE f

\* a poller that polls every device of the process
PolledDevicesAll(s) == Sessions

\* the devices the poller of session s polls: its clone of the Arc
PolledDevices(s) == {s}

SessPoll(s, result) ==
  /\ fw[s].pollers > 0
  /\ fw' = [t \in Sessions |->
              IF t \in PolledDevices(s) THEN PollDevice(fw[t], result)
              ELSE fw[t]]
  /\ UNCHANGED <<runVars, ds, calls, gb, pb>>

SessStep(s) ==
  \/ \E found \in BOOLEAN : SessCreate(s, found)
  \/ \E ok \in BOOLEAN : SessDevice(s, ok)
  \/ SessNewBuffer(s)
  \/ SessEnqueue(s, MaxLen)
  \/ SessRead(s)
  \/ SessAbandon(s)
  \/ SessResume(s)
  \/ SessExec(s)
  \/ \E result \in MapOutcomes : SessPoll(s, result)

NextSess == \E s \in Sessions : SessStep(s)

SpecSess == InitBuild /\ [][NextSess]_vars

\* C13: a Framework::default that found no adapter or was refused the
\* device has panicked with its message and has spawned no poller thread,
\* and nothing was made on it; only a session that was returned has ever
\* had a poller spawned.
C13_CreationFailureFatal ==
  \A s \in Sessions :
    /\ fw[s].stage = "failed" =>
         /\ fw[s].spawned = 0 /\ fw[s].pollers = 0
         /\ fw[s].fatal \in {"Failed to find an appropriate adapter",
                             "Failed at device creation"}
         /\ fw[s].made = {} /\ fw[s].subs = <<>> /\ fw[s].chan = "none"
    /\ fw[s].spawned > 0 => fw[s].stage = "live" /\ fw[s].spawned = 1
    /\ fw[s].stage = "live" => fw[s].spawned = 1 /\ fw[s].fatal = ""

C13_Witness ==
  /\ fw["A"].stage = "failed" /\ fw["A"].fatal = "Failed at device creation"
  /\ fw["B"].stage = "live" /\ fw["B"].pollers = 1 /\ fw["B"].got = "ok"

\* C11: from the return of Framework::default on, whatever the callers do
\* (uploads, dispatches, reads that complete, fail or are abandoned),
\* exactly one poller thread of the session is running; a session that was
\* not returned has none, so N sessions have N pollers.
C11_OnePollerPerSession ==
  \A s \in Sessions :
    /\ fw[s].stage = "live" => fw[s].pollers = 1
    /\ fw[s].stage # "live" => fw[s].pollers = 0

\* C20: neither assertion of the read-back channel fails: the callback's
\* send always finds the receiver, also after the caller abandoned the
\* pending read, and no waiting read finds the channel closed without a
\* result.
C20_ChannelAssertions ==
  \A s \in Sessions :
    /\ fw[s].pollerPanic # "GpuBuffer reading error!"
    /\ fw[s].rpanic # "GpuBuffer futures::channel::oneshot error"

\* C19: a step of one session (creation, buffer creation, enqueue, read,
\* execution, its poller's poll) leaves the queue, the buffer contents, the
\* map states and the pending map requests of every other session as they
\* were, and the pending read of a session gets its result only in a poll
\* of that session's device by that session's poller.
C19_SessionIsolation ==
  /\ [][\A s \in Sessions :
          SessStep(s) => \A t \in Sessions \ {s} : fw'[t] = fw[t]]_vars
  /\ [][\A s \in Sessions :
          (fw[s].chan = "open" /\ fw'[s].chan \in MapOutcomes) =>
             /\ fw[s].pollers = 1
             /\ \E result \in MapOutcomes :
                  fw'[s] = PollDevice(fw[s], result)]_vars

C19_Witness ==
  /\ fw["A"].chan = "ok" /\ fw["A"].pc = "await" /\ fw["A"].doneIdx = 1
  /\ fw["B"].chan = "open" /\ fw["B"].mapState = "waiting"
  /\ fw["B"].lastUse <= fw["B"].doneIdx

\* the read of session s has issued its map request and not completed
InWindow(s) ==
  fw[s].pc = "await" /\ fw[s].chan = "open" /\ fw[s].mapState = "waiting"

C21_Lockstep ==
  /\ [](/\ Len(ds.layout) = Len(ds.set)
        /\ \A i \in 1..Len(ds.layout) : ds.layout[i].binding = ds.set[i].binding)
  /\ [][(ds' # ds) =>
          /\ Len(ds'.layout) = Len(ds.layout) + 1
          /\ Len(ds'.set) = Len(ds.set) + 1
          /\ SubSeq(ds'.layout, 1, Len(ds.layout)) = ds.layout
          /\ SubSeq(ds'.set, 1, Len(ds.set)) = ds.set]_vars

C21_Witness ==
  /\ Len(ds.layout) = MaxBind /\ Len(ds.set) = MaxBind
  /\ ds.set[1].resource = "out" /\ ds.set[MaxBind].resource = "out"
  /\ ds.set[MaxBind].binding = MaxBind - 1
  /\ ds.layout[MaxBind].binding = MaxBind - 1

=============================================================================
